---- MODULE Spec2Model ----
(***************************************************************************)
(* SeeFactory: the production pipeline of NewProject.handleGenerate, the   *)
(* two requestors of the AI service (generateMovieScript,                  *)
(* generateSceneImage), the project store (utils/db) and the App shell     *)
(* that owns the view, the credential and the in-memory project list.      *)
(*                                                                         *)
(* Text is modelled as sequences of tokens (characters or lexical units),  *)
(* durations in thousandths of a minute, JavaScript's undefined/null as    *)
(* the empty sequence or the flag of the record that holds it.             *)
(***************************************************************************)
EXTENDS Integers, Sequences, FiniteSets, TLC

\* ------------------------------------------------------------------ bounds
MaxScenes == 2
MaxRuns == 1
MaxLoads == 1
MaxContent == 3
MaxIds == 2
MaxStamps == 2
MaxDeletes == 1

\* ------------------------------------------------------- parseInt, durations
Digits == {"0", "1", "2", "3", "4", "5"}

DigitVal(c) ==
  CASE c = "0" -> 0 [] c = "1" -> 1 [] c = "2" -> 2
    [] c = "3" -> 3 [] c = "4" -> 4 [] OTHER -> 5

RECURSIVE skipSpaces(_)
skipSpaces(s) ==
  IF s # <<>> /\ Head(s) = " " THEN skipSpaces(Tail(s)) ELSE s

\* The value of the longest prefix of digits of s, continuing from acc.
RECURSIVE digitRun(_, _)
digitRun(s, acc) ==
  IF s # <<>> /\ Head(s) \in Digits
  THEN digitRun(Tail(s), 10 * acc + DigitVal(Head(s)))
  ELSE acc

\* JavaScript parseInt(s) in base 10: leading blanks, an optional sign, then
\* digits up to the first other character; NaN when there is no digit.
parseInt(s) ==
  LET t == skipSpaces(s)
      neg == t # <<>> /\ Head(t) = "-"
      u == IF t # <<>> /\ Head(t) \in {"-", "+"} THEN Tail(t) ELSE t
  IN  IF u # <<>> /\ Head(u) \in Digits
      THEN [nan |-> FALSE, val |-> IF neg THEN 0 - digitRun(u, 0) ELSE digitRun(u, 0)]
      ELSE [nan |-> TRUE, val |-> 0]

\* String.prototype.replace('min', ''): the first occurrence of m,i,n removed.
RECURSIVE replaceMin(_)
replaceMin(s) ==
  IF Len(s) < 3 THEN s
  ELSE IF SubSeq(s, 1, 3) = <<"m", "i", "n">> THEN SubSeq(s, 4, Len(s))
  ELSE <<Head(s)>> \o replaceMin(Tail(s))

VIDEO_LENGTHS ==
  { <<"1", "4", "s">>, <<"1", "m", "i", "n">>, <<"2", "m", "i", "n">>,
    <<"3", "m", "i", "n">>, <<"5", "m", "i", "n">>, <<"1", "0", "m", "i", "n">>,
    <<"2", "0", "m", "i", "n">>, <<"3", "0", "m", "i", "n">>,
    <<"C", "u", "s", "t", "o", "m">> }

Custom == <<"C", "u", "s", "t", "o", "m">>

\* Values the custom-length number field can hold.
CustomLengths ==
  { <<>>, <<"1">>, <<"0">>, <<"3">>, <<"-", "2">>, <<"2", ".", "5">>, <<"1", "2">> }

\* NewProject.parseDuration, in thousandths of a minute.
parseDuration(length, customLength) ==
  IF length = Custom
  THEN LET p == parseInt(customLength)
       IN  IF p.nan \/ p.val = 0 THEN 1000 ELSE 1000 * p.val
  ELSE IF length = <<"1", "4", "s">> THEN 250
  ELSE 1000 * parseInt(replaceMin(length)).val

\* Math.round(x) for x = num / 1000: the nearest integer, halves upwards.
MathRound(num) == (num + 500) \div 1000

Max(a, b) == IF a >= b THEN a ELSE b

\* The legacy computation, durationMinutes * 4 (no short form, no floor).
totalScenesLegacy(durationMinutes) == (4 * durationMinutes) \div 1000

\* generateMovieScript: the scene count asked of the generator.
totalScenes(durationMinutes) ==
  LET isShortForm == durationMinutes < 1000
  IN  IF isShortForm THEN 1 ELSE Max(1, MathRound(4 * durationMinutes))

\* ------------------------------------------------- script response, JSON.parse
\* A token of a response text: a code fence, the word json, a line break, a
\* well-formed JSON object (with n scenes, n = -1 when it has no scenes field),
\* the JSON literal null, or text that is no JSON.
Tok(k) == [k |-> k, n |-> 0, ctx |-> FALSE]

Obj(n, ctx) == [k |-> "obj", n |-> n, ctx |-> ctx]

NullScript == [isNull |-> TRUE, hasScenes |-> FALSE, visualContext |-> "", scenes |-> <<>>]

\* SceneFrame as the generator returns it: no imageUrl yet.
SceneFrame(i) == [id |-> i, imageUrl |-> <<>>]

\* The object a well-formed JSON body denotes (MovieScript, unvalidated).
MovieScript(tok) ==
  IF tok.k = "null" THEN NullScript
  ELSE [isNull |-> FALSE,
        hasScenes |-> tok.n >= 0,
        visualContext |-> IF tok.ctx THEN "ctx" ELSE "",
        scenes |-> [i \in 1..tok.n |-> SceneFrame(i)]]

\* JSON.parse: white space around one JSON value is skipped; anything else
\* (a code fence, a tag word, junk, a second value) is a SyntaxError.
JSONparse(text) ==
  LET core == SelectSeq(text, LAMBDA t : t.k # "nl")
  IN  IF Len(core) = 1 /\ core[1].k \in {"obj", "null"}
      THEN [ok |-> TRUE, value |-> MovieScript(core[1])]
      ELSE [ok |-> FALSE, value |-> NullScript]

Threw(msg) == [threw |-> TRUE, error |-> msg, value |-> NullScript]

\* generateMovieScript after the fetch: response.ok, the content, JSON.parse.
scriptResult(resp) ==
  IF resp.status = "network" THEN Threw("Failed to fetch")
  ELSE IF resp.status # "ok" THEN Threw("OpenRouter API Error")
  ELSE IF resp.text = <<>> THEN Threw("No script generated.")
  ELSE LET p == JSONparse(resp.text)
       IN  IF p.ok THEN [threw |-> FALSE, error |-> "", value |-> p.value]
           ELSE Threw("SyntaxError")

\* --------------------------------------------------- image response, extraction
\* An image reference is a sequence of text pieces, <<>> when absent.
ImgThrew(msg) == [threw |-> TRUE, error |-> msg, value |-> <<>>]

ImgOk(ref) == [threw |-> FALSE, error |-> "", value |-> ref]

RECURSIVE trimStart(_)
trimStart(s) == IF s # <<>> /\ Head(s) = " " THEN trimStart(Tail(s)) ELSE s

RECURSIVE trimEnd(_)
trimEnd(s) ==
  IF s # <<>> /\ s[Len(s)] = " " THEN trimEnd(SubSeq(s, 1, Len(s) - 1)) ELSE s

trim(s) == trimEnd(trimStart(s))

\* content.match(/!\[.*?\]\((.*?)\)/)[1]: the text between the first "![..]("
\* and the first ")" after it; <<>> when there is no match or it is empty.
markdownMatch(content) ==
  LET opens == {p \in 1..Len(content) : content[p] = "![alt]("}
  IN  IF opens = {} THEN <<>>
      ELSE LET p == CHOOSE x \in opens : \A y \in opens : x <= y
               closes == {q \in (p + 1)..Len(content) : content[q] = ")"}
           IN  IF closes = {} THEN <<>>
               ELSE LET q == CHOOSE x \in closes : \A y \in closes : x <= y
                    IN  SubSeq(content, p + 1, q - 1)

startsWith(s, prefix) == s # <<>> /\ s[1] = prefix

\* The images array searched for the first entry that has a usable field.
RECURSIVE fromImagesAnyEntry(_)
fromImagesAnyEntry(images) ==
  IF images = <<>> THEN <<>>
  ELSE LET img == Head(images)
       IN  IF img.nested # <<>> THEN img.nested
           ELSE IF img.url # <<>> THEN img.url
           ELSE IF img.b64 # <<>> THEN <<"data:image/png;base64,">> \o img.b64
           ELSE fromImagesAnyEntry(Tail(images))

\* The first entry of the images array read with the direct url first.
fromImagesUrlFirst(images) ==
  IF images = <<>> THEN <<>>
  ELSE LET img == images[1]
       IN  IF img.url # <<>> THEN img.url
           ELSE IF img.nested # <<>> THEN img.nested
           ELSE IF img.b64 # <<>> THEN <<"data:image/png;base64,">> \o img.b64
           ELSE <<>>

\* generateSceneImage, step 1: message.images[0], its image_url.url, then its
\* url, then its b64_json as a data URI; <<>> when the step returns nothing.
fromImages(images) ==
  IF images = <<>> THEN <<>>
  ELSE LET img == images[1]
       IN  IF img.nested # <<>> THEN img.nested
           ELSE IF img.url # <<>> THEN img.url
           ELSE IF img.b64 # <<>> THEN <<"data:image/png;base64,">> \o img.b64
           ELSE <<>>

\* The content read as a bare URL or data URI before the markdown link.
fromContentUrlFirst(content) ==
  IF content = <<>> THEN <<>>
  ELSE IF startsWith(trim(content), "http") THEN trim(content)
  ELSE IF startsWith(trim(content), "data:") THEN trim(content)
  ELSE markdownMatch(content)

\* The content taken for an image reference whatever it is.
fromContentAny(content) == content

\* generateSceneImage, step 2: message.content, its markdown image link, then
\* the trimmed content when it starts with http, then when it starts with
\* data:; <<>> when the step returns nothing.
fromContent(content) ==
  IF content = <<>> THEN <<>>
  ELSE IF markdownMatch(content) # <<>> THEN markdownMatch(content)
  ELSE IF startsWith(trim(content), "http") THEN trim(content)
  ELSE IF startsWith(trim(content), "data:") THEN trim(content)
  ELSE <<>>

\* generateSceneImage after the fetch: the extraction chain.
imageResult(resp) ==
  IF resp.status = "network" THEN ImgThrew("Failed to fetch")
  ELSE IF resp.status # "ok" THEN ImgThrew("OpenRouter Image API Error")
  ELSE IF fromImages(resp.images) # <<>> THEN ImgOk(fromImages(resp.images))
  ELSE IF fromContent(resp.content) # <<>> THEN ImgOk(fromContent(resp.content))
  ELSE ImgThrew("AI did not return a recognizable image format.")

\* ----------------------------------------------------------------- the state
VARIABLES
  currentView,       \* App: 'new' | 'projects' | 'settings' | 'profile' | 'project-detail'
  apiKey,            \* App: the credential, "" when none is configured
  projects,          \* App: the in-memory project list
  selectedProject,   \* App: id of the selected project, 0 for null
  db,                \* the object store 'projects', keyed by id
  pendingLoads,      \* loadProjects calls whose getProjects has not resolved
  pendingDeletes,    \* handleDeleteProject calls whose deleteProject has not settled
  lastAlert,         \* the alert() on screen, "" when none (alert blocks the page)
  step,              \* NewProject: 'input' | 'processing'
  progress,          \* NewProject: the progress shown to the user
  processingStatus,  \* NewProject: the status line
  logs,              \* NewProject: the log lines
  runs,              \* the handleGenerate invocations started so far: the locals of
                     \* each, with the requests it issued, the script response it
                     \* got and the outcome of each image request it made
  inflight,          \* the fetch requests that have not resolved
  fnIn, fnOut        \* a single call of a pure function and its result

appVars == <<currentView, apiKey, projects, selectedProject, db, pendingLoads, pendingDeletes, lastAlert>>

uiVars == <<step, progress, processingStatus, logs>>

fnVars == <<fnIn, fnOut>>

vars == <<currentView, apiKey, projects, selectedProject, db, pendingLoads, pendingDeletes, lastAlert,
          step, progress, processingStatus, logs, runs, inflight, fnIn, fnOut>>

Min(a, b) == IF a <= b THEN a ELSE b

Keys == {"", "sk-key"}

\* ------------------------------------------------------------------ the form
ProjectModes == {"storyboard", "video_continuation", "freeform"}

\* The form as it stands when the generate button is pressed.  A video that
\* is still being processed is a selected one (handleVideoUpload sets both);
\* the fields the chosen mode, style or length does not read are at their
\* initial values.
Forms ==
  { f \in [mode : ProjectModes, titleBlank : BOOLEAN, fileSelected : BOOLEAN,
           isProcessingVideo : BOOLEAN, contentBlank : BOOLEAN,
           style : {"Cyberpunk", "Custom"}, customStyle : {"", "Film noir"},
           length : {<<"1", "4", "s">>, Custom},
           customLength : {<<"1">>, <<"-", "2">>}] :
      /\ f.isProcessingVideo => f.fileSelected
      /\ f.mode = "video_continuation" => f.contentBlank
      /\ f.mode # "video_continuation" =>
            f.titleBlank /\ ~f.fileSelected /\ ~f.isProcessingVideo
      /\ f.style # "Custom" => f.customStyle = ""
      /\ f.length # Custom => f.customLength = <<"1">> }

\* The generate button's disabled attribute.
disabled(f) ==
  f.mode = "video_continuation" /\ (~f.fileSelected \/ f.isProcessingVideo)

\* A guard that lets every credential through.
apiKeyNeverMissing(key) == FALSE

\* handleGenerate's credential guard.
apiKeyMissing(key) == key = ""

\* handleGenerate's validation: the alert it raises, "" when the form passes.
\* A generate handler without the checks on the form.
validationNone(f) == ""

validation(f) ==
  IF f.mode = "video_continuation"
  THEN IF f.titleBlank THEN "Please enter a project name."
       ELSE IF ~f.fileSelected THEN "Please upload a video file."
       ELSE IF f.isProcessingVideo THEN "Please wait for video processing to complete."
       ELSE ""
  ELSE IF f.contentBlank THEN "Please provide video content/instruction." ELSE ""

finalStyle(f) == IF f.style = "Custom" THEN f.customStyle ELSE f.style

\* --------------------------------------------------------- records and helpers
Entry(kind, scene, msg) == [kind |-> kind, scene |-> scene, msg |-> msg]

\* const newProject: Project = {...}
NewProjectRecord(id, createdAt) ==
  [id |-> id, createdAt |-> createdAt, script |-> NullScript,
   status |-> "generating_script", progress |-> 5]

ScriptRequest(r, key, n, style) ==
  [run |-> r, kind |-> "script", scene |-> 0, auth |-> key, totalScenes |-> n, style |-> style]

\* An image request of a run, for scene i.
ImageRequest(r, key, i) ==
  [run |-> r, kind |-> "image", scene |-> i, auth |-> key, totalScenes |-> 0, style |-> ""]

\* renderContent: is the NewProject component the one rendered?
rendersNewProject(view, selected) ==
  /\ ~(view = "project-detail" /\ selected # 0)
  /\ view \notin {"projects", "settings", "profile"}

NewProjectMounted == rendersNewProject(currentView, selectedProject)

\* A run whose component instance was unmounted writes its state no more.
Detach(rs) == [r \in DOMAIN rs |-> [rs[r] EXCEPT !.attached = FALSE]]

\* useEffect(loadProjects, [currentView]): one more load when the view changed.
effectLoads(view) ==
  IF view # currentView THEN Min(pendingLoads + 1, MaxLoads) ELSE pendingLoads

\* The state a NewProject instance is created with.
FreshUI ==
  /\ step' = "input"
  /\ progress' = 0
  /\ processingStatus' = "Initializing..."
  /\ logs' = <<>>

\* setProgress / setProcessingStatus / addLog of run r: dropped once unmounted.
UIWrite(r, p, status, entries) ==
  IF runs[r].attached
  THEN /\ progress' = p
       /\ processingStatus' = status
       /\ logs' = logs \o entries
  ELSE UNCHANGED <<progress, processingStatus, logs>>

FnIdle ==
  [fn |-> "none", duration |-> 0, text |-> <<>>, images |-> <<>>, content |-> <<>>,
   project |-> <<>>]

FnNone ==
  [done |-> FALSE, n |-> 0, threw |-> FALSE, value |-> NullScript, ref |-> <<>>,
   error |-> "", sent |-> FALSE]

InitApp ==
  /\ currentView = "new"
  /\ apiKey \in Keys
  /\ projects = <<>>
  /\ selectedProject = 0
  /\ db = <<>>
  /\ pendingLoads = 0
  /\ pendingDeletes = {}
  /\ lastAlert = ""
  /\ step = "input"
  /\ progress = 0
  /\ processingStatus = "Initializing..."
  /\ logs = <<>>
  /\ runs = <<>>
  /\ inflight = {}

Init == InitApp /\ fnIn = FnIdle /\ fnOut = FnNone

\* ------------------------------------------------------- what the providers send
\* Responses of the text-generation endpoint.
ScriptResponses ==
  { [status |-> "http", text |-> <<>>],
    [status |-> "ok", text |-> <<>>],
    [status |-> "ok", text |-> <<Tok("junk")>>],
    [status |-> "ok", text |-> <<Obj(-1, TRUE)>>],
    [status |-> "ok", text |-> <<Obj(0, FALSE)>>] }
  \cup { [status |-> "ok", text |-> <<Obj(n, TRUE)>>] : n \in 1..MaxScenes }

NoImage == [nested |-> <<>>, url |-> <<>>, b64 |-> <<>>]

\* Responses of the image-generation endpoint the pipeline is run against.
ImageResponses ==
  { [status |-> "http", images |-> <<>>, content |-> <<>>],
    [status |-> "ok", images |-> <<[NoImage EXCEPT !.nested = <<"https://img">>]>>,
     content |-> <<>>],
    [status |-> "ok", images |-> <<>>, content |-> <<"text">>],
    [status |-> "ok", images |-> <<NoImage>>, content |-> <<>>] }

NoResponse == [status |-> "none", text |-> <<>>]

\* ------------------------------------------------------- handleGenerate, pieces
\* A requestor that sends its request whatever the credential.
requestorKeyNeverMissing(key) == FALSE

\* if (!apiKey) throw new Error("API Key is missing.") of both requestors.
requestorKeyMissing(key) == key = ""

\* A check that accepts whatever the requestor returned.
invalidScriptNever(script) == FALSE

\* if (!script || !script.scenes)
invalidScript(script) == script.isNull \/ ~script.hasScenes

\* The progress computed from the scenes still to come.
progressPercentRemaining(k, n) == 20 + (((n - k) * 80) \div n)

\* 20 + Math.floor(((i + 1) / totalScenes) * 80), k = i + 1 the scene's number.
progressPercent(k, n) == 20 + ((k * 80) \div n)

\* The per-scene catch, made fatal: the error is rethrown to the outer catch.
perSceneCatchRethrows(k, msg) ==
  [fatal |-> TRUE, entries |-> <<Entry("Error rendering scene", k, msg)>>]

\* The per-scene catch swallowing the error without a log line.
perSceneCatchSilent(k, msg) == [fatal |-> FALSE, entries |-> <<>>]

\* The per-scene catch: the error is logged and the loop goes on.
perSceneCatch(k, msg) ==
  [fatal |-> FALSE, entries |-> <<Entry("Error rendering scene", k, msg)>>]

\* The loop asking for the failed scene again.
retryAfterFailure(k) == k

\* The scene the loop turns to when the request of scene k has failed and the
\* catch block is left: i++, the next one.
afterFailure(k) == k + 1

\* The image loop issuing the rest of the requests without awaiting each.
sceneRequestsUnawaited(r, key, k, n) == {ImageRequest(r, key, j) : j \in k..n}

\* The requests the image loop issues on reaching scene k: one, then it awaits.
\* A loop that goes to scene k without asking for its image.
sceneRequestsNone(r, key, k, n) == {}

sceneRequests(r, key, k, n) == {ImageRequest(r, key, k)}

\* The completion block leaving the project's status as it was.
completedKeepsStatus(project) == [project EXCEPT !.progress = 100]

\* The completion block putting the status back to that of the script step.
completedResetsStatus(project) ==
  [project EXCEPT !.status = "generating_script", !.progress = 100]

\* The completion block leaving the project's progress as it was.
completedKeepsProgress(project) == [project EXCEPT !.status = "completed"]

\* newProject.status = 'completed'; newProject.progress = 100
completed(project) == [project EXCEPT !.status = "completed", !.progress = 100]

SavingEntry == Entry("All scenes rendered. Saving...", 0, "")

\* The outer catch of handleGenerate for run r, whose record is run.
OuterCatch(r, run, entries, msg) ==
  /\ UIWrite(r, progress, "Error Occurred", entries \o <<Entry("CRITICAL ERROR", 0, msg)>>)
  /\ runs' = [runs EXCEPT ![r] = [run EXCEPT !.pc = "failed"]]

\* The loop of run r reaching scene k of n (k > n: the loop is over) when its
\* request q has resolved, after the log lines `entries` of the code before
\* it; p is the progress shown so far.
EnterScene(r, run, q, k, n, p, entries) ==
  IF k <= n
  THEN /\ UIWrite(r, progressPercent(k, n), "Rendering Scene", entries)
       /\ runs' = [runs EXCEPT ![r] = [run EXCEPT !.pc = "image", !.i = k,
                                                  !.issued = run.issued \o <<k>>]]
       /\ inflight' = (inflight \ {q}) \cup sceneRequests(r, run.apiKey, k, n)
  ELSE /\ UIWrite(r, p, "Production Complete! Saving to Database...",
                  entries \o <<SavingEntry>>)
       /\ runs' = [runs EXCEPT ![r] = [run EXCEPT !.pc = "delay", !.i = k,
                                                  !.newProject = completed(run.newProject)]]
       /\ inflight' = inflight \ {q}

\* ------------------------------------------------------------------- actions
StartEntries ==
  <<Entry("System initialized.", 0, ""), Entry("Drafting project", 0, ""),
    Entry("Contacting Screenwriter Agent", 0, "")>>

\* NewProject.handleGenerate up to its first await, the form being f, in a
\* session of at most cap runs.
handleGenerateUpTo(f, cap) ==
  /\ lastAlert = ""
  /\ NewProjectMounted /\ step = "input" /\ ~disabled(f)
  /\ IF apiKeyMissing(apiKey)
     THEN /\ lastAlert' = "Please configure your API Key in Settings first."
          /\ UNCHANGED <<currentView, apiKey, projects, selectedProject, db, pendingLoads, pendingDeletes,
                         uiVars, runs, inflight, fnVars>>
     ELSE IF validation(f) # ""
     THEN /\ lastAlert' = validation(f)
          /\ UNCHANGED <<currentView, apiKey, projects, selectedProject, db, pendingLoads, pendingDeletes,
                         uiVars, runs, inflight, fnVars>>
     ELSE /\ Len(runs) < cap
          /\ LET r == Len(runs) + 1
                   duration == parseDuration(f.length, f.customLength)
                   run == [pc |-> "script", attached |-> TRUE, apiKey |-> apiKey,
                           newProject |-> NewProjectRecord(r, r),
                           i |-> 0, closureProjects |-> projects, saveCalls |-> 0,
                           issued |-> <<>>, response |-> NoResponse, outcome |-> <<>>]
             IN  /\ step' = "processing"
                 /\ progress' = 2
                 /\ IF requestorKeyMissing(apiKey)
                    THEN /\ processingStatus' = "Error Occurred"
                         /\ logs' = logs \o StartEntries
                                      \o <<Entry("CRITICAL ERROR", 0, "API Key is missing.")>>
                         /\ runs' = Append(runs, [run EXCEPT !.pc = "failed"])
                         /\ UNCHANGED inflight
                    ELSE /\ processingStatus' = "Drafting Script & Storyboard..."
                         /\ logs' = logs \o StartEntries
                         /\ runs' = Append(runs, [run EXCEPT !.issued = <<0>>])
                         /\ inflight' = inflight \cup
                              {ScriptRequest(r, apiKey, totalScenes(duration), finalStyle(f))}
          /\ UNCHANGED <<appVars, fnVars>>

handleGenerate(f) == handleGenerateUpTo(f, MaxRuns)

\* The script request of run r resolves with resp: generateMovieScript returns
\* or throws, and handleGenerate goes on to its next await.
ScriptResolved(r, resp) ==
  /\ lastAlert = ""
  /\ r \in DOMAIN runs /\ runs[r].pc = "script"
  /\ \E q \in inflight :
       /\ q.run = r /\ q.kind = "script"
       /\ LET res == scriptResult(resp)
              script == res.value
              run == [runs[r] EXCEPT !.response = resp]
          IN  IF res.threw
              THEN OuterCatch(r, run, <<>>, res.error) /\ inflight' = inflight \ {q}
              ELSE IF invalidScript(script)
              THEN /\ OuterCatch(r, run, <<>>, "Received invalid script data from AI.")
                   /\ inflight' = inflight \ {q}
              ELSE LET n == Len(script.scenes)
                       entries ==
                         <<Entry("Script generated", n, "")>> \o
                         (IF script.visualContext # ""
                          THEN <<Entry("Visual Context established", 0, "")>> ELSE <<>>)
                       run2 == [run EXCEPT !.newProject.script = script,
                                           !.newProject.status = "generating_images"]
                   IN  EnterScene(r, run2, q, 1, n, 20, entries)
  /\ UNCHANGED <<appVars, step, fnVars>>

\* An image request of run r resolves with resp: generateSceneImage returns or
\* throws inside the per-scene try, and the loop goes on.
ImageResolved(r, resp) ==
  /\ lastAlert = ""
  /\ r \in DOMAIN runs /\ runs[r].pc = "image"
  /\ \E q \in inflight :
       /\ q.run = r /\ q.kind = "image"
       /\ LET res == imageResult(resp)
              run == [runs[r] EXCEPT !.outcome = Append(@, ~res.threw)]
              k == q.scene
              n == Len(run.newProject.script.scenes)
          IN  IF res.threw
              THEN LET c == perSceneCatch(k, res.error)
                   IN  IF c.fatal
                       THEN OuterCatch(r, run, <<>>, res.error) /\ inflight' = inflight \ {q}
                       ELSE EnterScene(r, run, q, afterFailure(k), n, progress, c.entries)
              ELSE EnterScene(r, [run EXCEPT !.newProject.script.scenes[k].imageUrl = res.value],
                              q, k + 1, n, progress,
                              <<Entry("Scene rendered successfully.", k, "")>>)
  /\ UNCHANGED <<appVars, step, fnVars>>

\* setTimeout(resolve, 500) of run r fires: onProjectCreated(newProject), and
\* App.handleProjectCreated calls saveProject.
TimerFires(r) ==
  /\ lastAlert = ""
  /\ r \in DOMAIN runs /\ runs[r].pc = "delay"
  /\ runs' = [runs EXCEPT ![r].pc = "saving", ![r].saveCalls = @ + 1]
  /\ UNCHANGED <<appVars, uiVars, inflight, fnVars>>

\* A store that keeps the record it already has under the id.
saveProjectKeepsFirst(store, project) ==
  [k \in DOMAIN store \cup {project.id} |->
     IF k \in DOMAIN store THEN store[k] ELSE project]

\* db.put(STORE_NAME, project): the store is keyed by id.
saveProject(store, project) ==
  [k \in DOMAIN store \cup {project.id} |-> IF k = project.id THEN project ELSE store[k]]

\* A delete that clears the object store.
deleteProjectClear(store, id) == <<>>

\* db.delete(STORE_NAME, id)
deleteProject(store, id) == [k \in DOMAIN store \ {id} |-> store[k]]

\* db.getAll(STORE_NAME): the records in key order.
RECURSIVE getAll(_, _)
getAll(store, keys) ==
  IF keys = {} THEN <<>>
  ELSE LET k == CHOOSE x \in keys : \A y \in keys : x <= y
       IN  <<store[k]>> \o getAll(store, keys \ {k})

\* One step of the stable sort with comparator b.createdAt - a.createdAt.
RECURSIVE insertByCreatedAt(_, _)
insertByCreatedAt(sorted, x) ==
  IF sorted = <<>> THEN <<x>>
  ELSE IF Head(sorted).createdAt >= x.createdAt
       THEN <<Head(sorted)>> \o insertByCreatedAt(Tail(sorted), x)
       ELSE <<x>> \o sorted

\* The records left in the order getAll returned them.
sortSkipped(s) == s

RECURSIVE sortByCreatedAt(_)
sortByCreatedAt(s) ==
  IF s = <<>> THEN <<>>
  ELSE insertByCreatedAt(sortByCreatedAt(SubSeq(s, 1, Len(s) - 1)), s[Len(s)])

getProjects(store) == sortByCreatedAt(getAll(store, DOMAIN store))

\* setCurrentView(view) and setSelectedProject(sel) with what rendering makes of
\* them: the effect on currentView, and NewProject unmounting (its state is
\* dropped, its runs go on detached); rs is the value runs takes otherwise.
SetView(view, sel, rs) ==
  /\ currentView' = view
  /\ selectedProject' = sel
  /\ pendingLoads' = effectLoads(view)
  /\ IF NewProjectMounted /\ ~rendersNewProject(view, sel)
     THEN FreshUI /\ runs' = Detach(rs)
     ELSE UNCHANGED uiVars /\ runs' = rs

\* The record of a run whose invocation is over: its locals are dropped.
Settled(run, pc) ==
  [run EXCEPT !.pc = pc, !.i = 0, !.issued = <<>>, !.response = NoResponse,
              !.outcome = <<>>, !.closureProjects = <<>>,
              !.newProject = [id |-> run.newProject.id, createdAt |-> run.newProject.createdAt,
                              script |-> NullScript, status |-> "", progress |-> 0]]

\* saveProject of run r settles; handleProjectCreated goes on, or catches.
SaveResolved(r, ok) ==
  /\ lastAlert = ""
  /\ r \in DOMAIN runs /\ runs[r].pc = "saving"
  /\ IF ok
     THEN /\ db' = saveProject(db, runs[r].newProject)
          /\ projects' = <<runs[r].newProject>> \o runs[r].closureProjects
          /\ SetView("project-detail", runs[r].newProject.id,
                     [runs EXCEPT ![r] = Settled(runs[r], "saved")])
          /\ UNCHANGED <<apiKey, pendingDeletes, lastAlert>>
     ELSE /\ lastAlert' = "Failed to save project. Database error."
          /\ runs' = [runs EXCEPT ![r] = Settled(runs[r], "saveFailed")]
          /\ UNCHANGED <<currentView, apiKey, projects, selectedProject, db, pendingLoads, pendingDeletes,
                         uiVars>>
  /\ UNCHANGED <<inflight, fnVars>>

\* The 'Back to Editor' button of the processing view.
BackToEditor ==
  /\ lastAlert = ""
  /\ NewProjectMounted /\ step = "processing" /\ processingStatus = "Error Occurred"
  /\ step' = "input"
  /\ UNCHANGED <<appVars, progress, processingStatus, logs, runs, inflight, fnVars>>

\* Sidebar.onNavigate
Navigate(view) ==
  /\ lastAlert = ""
  /\ SetView(view, 0, runs)
  /\ UNCHANGED <<apiKey, projects, db, pendingDeletes, lastAlert, inflight, fnVars>>

\* App.saveApiKey, from the Settings view.
saveApiKey(key) ==
  /\ lastAlert = ""
  /\ currentView = "settings"
  /\ apiKey' = key
  /\ UNCHANGED <<currentView, projects, selectedProject, db, pendingLoads, pendingDeletes, lastAlert,
                 uiVars, runs, inflight, fnVars>>

\* ProjectList.onSelectProject
onSelectProject(n) ==
  /\ lastAlert = ""
  /\ currentView = "projects" /\ n \in 1..Len(projects)
  /\ SetView("project-detail", projects[n].id, runs)
  /\ UNCHANGED <<apiKey, projects, db, pendingDeletes, lastAlert, inflight, fnVars>>

\* ProjectDetail.onBack
onBack ==
  /\ lastAlert = ""
  /\ currentView = "project-detail" /\ selectedProject # 0
  /\ SetView("projects", selectedProject, runs)
  /\ UNCHANGED <<apiKey, projects, db, pendingDeletes, lastAlert, inflight, fnVars>>

\* App.loadProjects: getProjects resolves (or rejects, and the list stays).
LoadProjectsResolved(ok) ==
  /\ lastAlert = ""
  /\ pendingLoads > 0
  /\ pendingLoads' = pendingLoads - 1
  /\ projects' = IF ok THEN getProjects(db) ELSE projects
  /\ UNCHANGED <<currentView, apiKey, selectedProject, db, pendingDeletes, lastAlert,
                 uiVars, runs, inflight, fnVars>>

\* App.handleDeleteProject up to its await, from the delete button of entry n
\* of the project list; confirmed is the answer to window.confirm.  The call
\* keeps the projects and selectedProject of the render it was made from.
handleDeleteProject(n, confirmed) ==
  /\ lastAlert = ""
  /\ currentView = "projects" /\ n \in 1..Len(projects)
  /\ IF confirmed
     THEN /\ Cardinality(pendingDeletes) < MaxDeletes
          /\ pendingDeletes' = pendingDeletes \cup
               {[id |-> projects[n].id, closureProjects |-> projects,
                 closureSelected |-> selectedProject]}
          /\ fnIn' = [FnIdle EXCEPT !.fn = "handleDeleteProject", !.project = <<projects[n]>>]
     ELSE /\ fnIn' = [FnIdle EXCEPT !.fn = "declined", !.project = <<projects[n]>>]
          /\ UNCHANGED pendingDeletes
  /\ UNCHANGED <<currentView, apiKey, projects, selectedProject, db, pendingLoads, lastAlert,
                 uiVars, runs, inflight, fnOut>>

\* deleteProject(id) of a call settles: handleDeleteProject goes on after its
\* await, or catches and logs to the console.
DeleteResolved(id, ok) ==
  /\ lastAlert = ""
  /\ \E d \in pendingDeletes :
       /\ d.id = id
       /\ pendingDeletes' = pendingDeletes \ {d}
       /\ IF ok
          THEN /\ db' = deleteProject(db, id)
               /\ projects' = SelectSeq(d.closureProjects, LAMBDA p : p.id # id)
               /\ fnIn' = [FnIdle EXCEPT !.fn = "deleteProject", !.project = <<d>>]
               /\ IF d.closureSelected = id
                  THEN SetView("projects", 0, runs)
                  ELSE UNCHANGED <<currentView, selectedProject, pendingLoads, uiVars, runs>>
          ELSE /\ fnIn' = [FnIdle EXCEPT !.fn = "Delete failed", !.project = <<d>>]
               /\ UNCHANGED <<currentView, projects, selectedProject, db, pendingLoads,
                              uiVars, runs>>
  /\ UNCHANGED <<apiKey, lastAlert, inflight, fnOut>>

\* The user closes the alert box.
DismissAlert ==
  /\ lastAlert # ""
  /\ lastAlert' = ""
  /\ UNCHANGED <<currentView, apiKey, projects, selectedProject, db, pendingLoads, pendingDeletes,
                 uiVars, runs, inflight, fnVars>>

Next ==
  \/ \E f \in Forms : handleGenerate(f)
  \/ \E r \in 1..MaxRuns, resp \in ScriptResponses : ScriptResolved(r, resp)
  \/ \E r \in 1..MaxRuns, resp \in ImageResponses : ImageResolved(r, resp)
  \/ \E r \in 1..MaxRuns : TimerFires(r)
  \/ \E r \in 1..MaxRuns, ok \in BOOLEAN : SaveResolved(r, ok)
  \/ BackToEditor
  \/ \E view \in {"new", "projects", "settings", "profile"} : Navigate(view)
  \/ \E key \in Keys : saveApiKey(key)
  \/ \E n \in 1..MaxRuns : onSelectProject(n)
  \/ onBack
  \/ \E ok \in BOOLEAN : LoadProjectsResolved(ok)
  \/ DismissAlert

Spec == Init /\ [][Next]_vars

\* A session in which generate can be pressed once more than in Spec.
NextSession ==
  \/ \E f \in Forms : handleGenerateUpTo(f, MaxRuns + 1)
  \/ \E r \in 1..(MaxRuns + 1), resp \in ScriptResponses : ScriptResolved(r, resp)
  \/ \E r \in 1..(MaxRuns + 1), resp \in ImageResponses : ImageResolved(r, resp)
  \/ \E r \in 1..(MaxRuns + 1) : TimerFires(r)
  \/ \E r \in 1..(MaxRuns + 1), ok \in BOOLEAN : SaveResolved(r, ok)
  \/ BackToEditor
  \/ \E view \in {"new", "projects", "settings", "profile"} : Navigate(view)
  \/ \E key \in Keys : saveApiKey(key)
  \/ \E n \in 1..(MaxRuns + 1) : onSelectProject(n)
  \/ onBack
  \/ \E ok \in BOOLEAN : LoadProjectsResolved(ok)
  \/ DismissAlert

SpecSession == Init /\ [][NextSession]_vars

\* ----------------------------------------------- the requestors' pure functions
\* Durations in thousandths of a minute: every eighth of a minute from -2 to
\* 31, and what parseDuration makes of the form's length fields.
Durations ==
  {d \in (0 - 2000)..31000 : d % 125 = 0}
    \cup {parseDuration(l, c) : l \in VIDEO_LENGTHS, c \in CustomLengths}

Bodies == {Obj(n, c) : n \in (0 - 1)..MaxScenes, c \in BOOLEAN} \cup {Tok("null"), Tok("junk")}

Fenced(body, tagged) ==
  <<Tok("fence")>> \o (IF tagged THEN <<Tok("json")>> ELSE <<>>)
    \o <<Tok("nl"), body, Tok("nl"), Tok("fence")>>

FencedTexts == {Fenced(b, t) : b \in Bodies, t \in BOOLEAN}

Texts ==
  {<<>>} \cup {<<b>> : b \in Bodies} \cup {<<Tok("nl"), b, Tok("nl")>> : b \in Bodies}
    \cup FencedTexts

\* The entries an images array can hold: each field present or absent.
ImageEntries ==
  [nested : {<<>>, <<"https://nested">>}, url : {<<>>, <<"https://direct">>},
   b64 : {<<>>, <<"iVBOR">>}]

ImageArrays ==
  {<<>>} \cup {<<e>> : e \in ImageEntries}
    \cup {<<NoImage, [NoImage EXCEPT !.url = <<"https://second">>]>>}

\* The pieces a content is made of: white space, the two prefixes, other
\* text, the opening of a markdown image up to its "(", and a ")".
ContentPieces == {" ", "http", "data:", "x", "![alt](", ")"}

RECURSIVE SeqsUpTo(_, _)
SeqsUpTo(S, n) ==
  IF n = 0 THEN {<<>>}
  ELSE LET shorter == SeqsUpTo(S, n - 1)
       IN  shorter \cup {Append(s, x) : s \in shorter, x \in S}

ContentSamples ==
  { <<>>, <<"x">>, <<"![alt](", "x", ")">>, <<"http", "x">>, <<"data:", "x">>,
    <<"http", "x", "![alt](", "x", ")">>, <<" ", "http", "x", " ">>,
    <<"x", "![alt](", "http", "x", ")", ")">> }

Contents == SeqsUpTo(ContentPieces, MaxContent) \cup ContentSamples

FnInputs ==
  {[FnIdle EXCEPT !.fn = "totalScenes", !.duration = d] : d \in Durations}
    \cup {[FnIdle EXCEPT !.fn = "generateMovieScript", !.text = t] : t \in Texts}
    \cup {[FnIdle EXCEPT !.fn = "generateSceneImage", !.images = a, !.content = c] :
            a \in ImageArrays, c \in ContentSamples}
    \cup {[FnIdle EXCEPT !.fn = "generateSceneImage", !.content = c] : c \in Contents}

InitFn == InitApp /\ fnIn \in FnInputs /\ fnOut = FnNone

\* generateMovieScript computes the scene count of its prompt.
ApplyTotalScenes ==
  /\ fnIn.fn = "totalScenes" /\ ~fnOut.done
  /\ fnOut' = [FnNone EXCEPT !.done = TRUE, !.n = totalScenes(fnIn.duration)]
  /\ UNCHANGED <<appVars, uiVars, runs, inflight, fnIn>>

\* What a requestor called with an empty credential does: it throws at once.
MissingKey ==
  [FnNone EXCEPT !.done = TRUE, !.threw = TRUE, !.error = "API Key is missing."]

\* generateMovieScript called with the credential apiKey: the guard, then the
\* request, answered 2xx with the content fnIn.text.
ApplyScriptResult ==
  /\ fnIn.fn = "generateMovieScript" /\ ~fnOut.done
  /\ LET res == scriptResult([status |-> "ok", text |-> fnIn.text])
     IN  fnOut' = IF requestorKeyMissing(apiKey) THEN MissingKey
                  ELSE [FnNone EXCEPT !.done = TRUE, !.sent = TRUE, !.threw = res.threw,
                                      !.error = res.error, !.value = res.value]
  /\ UNCHANGED <<appVars, uiVars, runs, inflight, fnIn>>

\* generateSceneImage called with the credential apiKey: the guard, then the
\* request, answered 2xx with fnIn.images and fnIn.content.
ApplyImageResult ==
  /\ fnIn.fn = "generateSceneImage" /\ ~fnOut.done
  /\ LET res == imageResult([status |-> "ok", images |-> fnIn.images,
                             content |-> fnIn.content])
     IN  fnOut' = IF requestorKeyMissing(apiKey) THEN MissingKey
                  ELSE [FnNone EXCEPT !.done = TRUE, !.sent = TRUE, !.threw = res.threw,
                                      !.error = res.error, !.ref = res.value]
  /\ UNCHANGED <<appVars, uiVars, runs, inflight, fnIn>>

NextFn == ApplyTotalScenes \/ ApplyScriptResult \/ ApplyImageResult

SpecFn == InitFn /\ [][NextFn]_vars

\* --------------------------------------------------- the project store, alone
\* The projects handed to the store: finished ones, under a few ids and
\* creation times.
StoreRecords ==
  { [id |-> id, createdAt |-> t, script |-> MovieScript(Obj(0, FALSE)),
     status |-> "completed", progress |-> 100] : id \in 1..MaxIds, t \in 1..MaxStamps }

\* saveProject(p); fnIn keeps the last call made on the store.
DbSave(p) ==
  /\ db' = saveProject(db, p)
  /\ fnIn' = [FnIdle EXCEPT !.fn = "saveProject", !.project = <<p>>]
  /\ UNCHANGED <<currentView, apiKey, projects, selectedProject, pendingLoads, pendingDeletes, lastAlert,
                 uiVars, runs, inflight, fnOut>>

DbDelete(id) ==
  /\ db' = deleteProject(db, id)
  /\ fnIn' = [FnIdle EXCEPT !.fn = "deleteProject"]
  /\ UNCHANGED <<currentView, apiKey, projects, selectedProject, pendingLoads, pendingDeletes, lastAlert,
                 uiVars, runs, inflight, fnOut>>

\* getProjects, its result kept in the project list as loadProjects does.
DbList ==
  /\ projects' = getProjects(db)
  /\ fnIn' = [FnIdle EXCEPT !.fn = "getProjects"]
  /\ UNCHANGED <<currentView, apiKey, selectedProject, db, pendingLoads, pendingDeletes, lastAlert,
                 uiVars, runs, inflight, fnOut>>

NextDb ==
  \/ \E p \in StoreRecords : DbSave(p)
  \/ \E id \in 1..MaxIds : DbDelete(id)
  \/ DbList

SpecDb == Init /\ [][NextDb]_vars

\* ------------------------------------------------------------------ properties
Started == DOMAIN runs

SceneCount(r) == Len(runs[r].newProject.script.scenes)

HasImage(r, k) == runs[r].newProject.script.scenes[k].imageUrl # <<>>

Requests(r) == {q \in inflight : q.run = r}

\* All scenes of run r have been processed and its invocation has not settled.
Finished(r) == runs[r].pc \in {"delay", "saving"}

\* C1: a failed image request never ends the run.  A run fails only before
\* any image request has resolved; while the loop is at scene i exactly the
\* i - 1 scenes before it have been processed; when the loop is over all N
\* scenes have been processed and the status is completed; and at every moment
\* a processed scene has an image reference if and only if its own request
\* succeeded.
C1_SceneFailuresNonFatal ==
  \A r \in Started :
    /\ runs[r].pc = "failed" => runs[r].outcome = <<>>
    /\ runs[r].pc = "image" => Len(runs[r].outcome) = runs[r].i - 1
    /\ Finished(r) =>
         /\ Len(runs[r].outcome) = SceneCount(r)
         /\ runs[r].newProject.status = "completed"
    /\ runs[r].pc \in {"image", "delay", "saving"} =>
         \A k \in 1..SceneCount(r) :
           HasImage(r, k) <=> (k <= Len(runs[r].outcome) /\ runs[r].outcome[k])

\* C1 witness: a run of two scenes is over, the first image request having
\* failed and the second succeeded.
C1_Witness ==
  \E r \in Started :
    /\ runs[r].pc = "delay"
    /\ runs[r].outcome = <<FALSE, TRUE>>
    /\ ~HasImage(r, 1) /\ HasImage(r, 2)

\* A script response that makes Step 1 fail: a non-2xx answer, an empty
\* content, a content that is not one well-formed JSON value, or a value
\* without a scenes field.
Step1Fails(resp) ==
  \/ resp.status # "ok"
  \/ resp.text = <<>>
  \/ LET core == SelectSeq(resp.text, LAMBDA t : t.k # "nl")
     IN  ~(Len(core) = 1 /\ core[1].k = "obj" /\ core[1].n >= 0)

\* C2: a run whose script request failed has issued no image request, has
\* none in flight, has not called save, is stopped, and has no record in the
\* store.
C2_Step1FailureHalts ==
  \A r \in Started :
    (runs[r].response # NoResponse /\ Step1Fails(runs[r].response)) =>
      /\ runs[r].pc = "failed"
      /\ runs[r].issued = <<0>>
      /\ Requests(r) = {}
      /\ runs[r].saveCalls = 0
      /\ runs[r].newProject.id \notin DOMAIN db

\* C2 witness: a run stopped on a well-formed script without a scenes field.
C2_Witness ==
  \E r \in Started :
    /\ runs[r].pc = "failed"
    /\ runs[r].response = [status |-> "ok", text |-> <<Obj(0 - 1, TRUE)>>]

\* C3 as claimed: after a Step-1 failure the project's status is error, and
\* the log of the run's component ends with the entry carrying the message.
C3_Step1FailureSetsError ==
  \A r \in Started :
    runs[r].pc = "failed" =>
      /\ runs[r].newProject.status = "error"
      /\ runs[r].attached =>
           (logs # <<>> /\ logs[Len(logs)].kind = "CRITICAL ERROR")

\* C4: the requests of a run are issued one at a time in order: the script
\* request first, then scenes 1, 2, ...; at most one is in flight, it is the
\* last one issued, an image request is in flight only once the script has
\* arrived and every earlier image request has resolved.
C4_RequestsSequential ==
  \A r \in Started :
    /\ Cardinality(Requests(r)) <= 1
    /\ \A j \in 1..Len(runs[r].issued) : runs[r].issued[j] = j - 1
    /\ \A q \in Requests(r) :
         /\ q.scene = runs[r].issued[Len(runs[r].issued)]
         /\ q.kind = "image" =>
              /\ runs[r].response # NoResponse
              /\ ~runs[r].newProject.script.isNull
              /\ Len(runs[r].outcome) = q.scene - 1

\* C4 witness: the request of scene 2 is in flight, that of scene 1 resolved.
C4_Witness ==
  \E r \in Started :
    /\ runs[r].pc = "image" /\ runs[r].i = 2
    /\ Len(runs[r].outcome) = 1
    /\ \E q \in Requests(r) : q.kind = "image" /\ q.scene = 2

\* C5: once the loop is over the project is completed with progress 100,
\* whatever the outcomes; save has been called exactly once in every run that
\* went past the closing delay, and never in a run that has not.
C5_CompletedSavedOnce ==
  \A r \in Started :
    /\ Finished(r) =>
         /\ runs[r].newProject.status = "completed"
         /\ runs[r].newProject.progress = 100
         /\ Len(runs[r].outcome) = SceneCount(r)
    /\ runs[r].pc \in {"saving", "saved", "saveFailed"} => runs[r].saveCalls = 1
    /\ runs[r].pc \in {"script", "image", "delay", "failed"} =>
         /\ runs[r].saveCalls = 0
         /\ runs[r].newProject.id \notin DOMAIN db

\* C5 witness: save has been called for a run of two scenes whose first image
\* request failed.
C5_Witness ==
  \E r \in Started :
    /\ runs[r].pc = "saving" /\ runs[r].saveCalls = 1
    /\ runs[r].outcome = <<FALSE, TRUE>>
    /\ runs[r].newProject.progress = 100

\* C6 as claimed: while the request of scene i is in flight (i - 1 scenes
\* processed), the progress shown is 20 + floor(((i - 1) / N) * 80).
C6_ProgressAfterEachScene ==
  \A r \in Started :
    (runs[r].pc = "image" /\ runs[r].attached) =>
      progress = 20 + ((80 * (runs[r].i - 1)) \div SceneCount(r))

\* C7 as claimed: when the first image request is issued the project has the
\* script, status generating_images and progress 20.
C7_Step2BeforeFirstImage ==
  \A r \in Started :
    (runs[r].pc = "image" /\ runs[r].i = 1) =>
      /\ ~runs[r].newProject.script.isNull
      /\ runs[r].newProject.status = "generating_images"
      /\ runs[r].newProject.progress = 20

KeyAlert == "Please configure your API Key in Settings first."

C9_TargetSceneCount ==
  (fnOut.done /\ fnIn.fn = "totalScenes") =>
    /\ fnOut.n >= 1
    /\ fnIn.duration < 1000 => fnOut.n = 1
    /\ fnIn.duration >= 1000 =>
         /\ 1000 * fnOut.n <= 4 * fnIn.duration + 500
         /\ 4 * fnIn.duration + 500 < 1000 * (fnOut.n + 1)

\* C9 witness: 1.125 minutes gives 4.5, rounded up to 5 scenes.
C9_Witness == fnOut.done /\ fnIn.fn = "totalScenes" /\ fnIn.duration = 1125 /\ fnOut.n = 5

\* C10 as claimed: a fenced well-formed body parses, without failing, to the
\* object the body denotes.
C10_FencesIgnored ==
  (fnOut.done /\ fnOut.sent /\ fnIn.fn = "generateMovieScript") =>
    \A b \in Bodies, t \in BOOLEAN :
      (b.k \in {"obj", "null"} /\ fnIn.text = Fenced(b, t)) =>
        (~fnOut.threw /\ fnOut.value = MovieScript(b))

\* C11 as claimed: on a well-formed JSON body without a scenes field the
\* script requestor itself fails, returning no object to its caller.
C11_RequestorRejectsMissingScenes ==
  (fnOut.done /\ fnOut.sent /\ fnIn.fn = "generateMovieScript"
     /\ \E c \in BOOLEAN : fnIn.text = <<Obj(0 - 1, c)>>) => fnOut.threw

\* C12: when the response carries an images array, the reference returned is
\* the nested URL of its first entry if present, else the entry's direct URL
\* if present, else its base64 payload as a data:image/png;base64, URI,
\* whatever the content holds.
C12_ImagesArrayPriority ==
  (fnOut.done /\ fnOut.sent /\ fnIn.fn = "generateSceneImage" /\ fnIn.images # <<>>) =>
    LET img == fnIn.images[1]
    IN  /\ img.nested # <<>> => (~fnOut.threw /\ fnOut.ref = img.nested)
        /\ (img.nested = <<>> /\ img.url # <<>>) => (~fnOut.threw /\ fnOut.ref = img.url)
        /\ (img.nested = <<>> /\ img.url = <<>> /\ img.b64 # <<>>) =>
             (~fnOut.threw /\ fnOut.ref = <<"data:image/png;base64,">> \o img.b64)

\* C12 witness: an entry with a direct URL and a base64 payload but no nested
\* URL, beside a content holding a markdown link: the direct URL is returned.
C12_Witness ==
  /\ fnOut.done /\ fnIn.fn = "generateSceneImage"
  /\ fnIn.images = <<[nested |-> <<>>, url |-> <<"https://direct">>, b64 |-> <<"iVBOR">>]>>
  /\ fnIn.content = <<"![alt](", "x", ")">>
  /\ fnOut.ref = <<"https://direct">>

\* The first markdown image opening of a content, 0 when there is none.
FirstOpen(content) ==
  IF \E p \in 1..Len(content) : content[p] = "![alt]("
  THEN CHOOSE p \in 1..Len(content) :
         /\ content[p] = "![alt]("
         /\ \A y \in 1..(p - 1) : content[y] # "![alt]("
  ELSE 0

\* The first ")" after position p, 0 when there is none.
FirstClose(content, p) ==
  IF \E q \in (p + 1)..Len(content) : content[q] = ")"
  THEN CHOOSE q \in (p + 1)..Len(content) :
         /\ content[q] = ")"
         /\ \A y \in (p + 1)..(q - 1) : content[y] # ")"
  ELSE 0

\* The content holds a markdown image link with a non-empty target.
HasLink(content) ==
  /\ FirstOpen(content) > 0
  /\ FirstClose(content, FirstOpen(content)) > FirstOpen(content) + 1

LinkTarget(content) ==
  SubSeq(content, FirstOpen(content) + 1, FirstClose(content, FirstOpen(content)) - 1)

\* C13: without an images array, a content holding a markdown image link
\* yields the link's target, even when the content starts with http; failing
\* that, a content that starts with http and has no white space around it is
\* returned unchanged; failing that, so is one that starts with data:.
C13_ContentStrategiesInOrder ==
  (fnOut.done /\ fnOut.sent /\ fnIn.fn = "generateSceneImage" /\ fnIn.images = <<>>
     /\ fnIn.content # <<>>) =>
    LET content == fnIn.content
        bare == content[1] # " " /\ content[Len(content)] # " "
    IN  /\ HasLink(content) => (~fnOut.threw /\ fnOut.ref = LinkTarget(content))
        /\ (~HasLink(content) /\ bare /\ content[1] = "http") =>
             (~fnOut.threw /\ fnOut.ref = content)
        /\ (~HasLink(content) /\ bare /\ content[1] = "data:") =>
             (~fnOut.threw /\ fnOut.ref = content)

\* C13 witness: a content that starts with http and holds a markdown link
\* yields the link's target.
C13_Witness ==
  /\ fnOut.done /\ fnIn.fn = "generateSceneImage" /\ fnIn.images = <<>>
  /\ fnIn.content = <<"http", "x", "![alt](", "x", ")">>
  /\ fnOut.ref = <<"x">>

Unrecognized == "AI did not return a recognizable image format."

\* The first piece of a content that is not white space, "" when none.
Lead(content) ==
  LET words == SelectSeq(content, LAMBDA t : t # " ")
  IN  IF words = <<>> THEN "" ELSE words[1]

\* A 2xx image response no extraction strategy applies to.
NoStrategy(resp) ==
  /\ resp.status = "ok"
  /\ resp.images # <<>> => resp.images[1] = NoImage
  /\ ~HasLink(resp.content)
  /\ Lead(resp.content) \notin {"http", "data:"}

\* C14: when the response to the image request of scene k matches no
\* extraction strategy, the call fails as unrecognized: the scene gets no
\* image reference, the failure is logged for that scene, and the run goes on
\* to the next scene, or to completion after the last one.
C14_UnrecognizedEndsOnlyTheCall ==
  [][\A r \in DOMAIN runs, resp \in ImageResponses :
       (NoStrategy(resp) /\ ImageResolved(r, resp)) =>
         LET k == runs[r].i
         IN  /\ imageResult(resp) = ImgThrew(Unrecognized)
             /\ runs'[r].outcome = Append(runs[r].outcome, FALSE)
             /\ runs'[r].newProject.script.scenes[k].imageUrl = <<>>
             /\ runs'[r].pc = IF k < SceneCount(r) THEN "image" ELSE "delay"
             /\ runs'[r].i = k + 1
             /\ runs[r].attached =>
                  logs'[Len(logs) + 1] = Entry("Error rendering scene", k, Unrecognized)]_vars

\* C14 witness: the request of scene 1 was answered with an unrecognized
\* response, and the request of scene 2 is in flight.
C14_Witness ==
  \E r \in Started :
    /\ runs[r].pc = "image" /\ runs[r].i = 2 /\ runs[r].outcome = <<FALSE>>
    /\ runs[r].attached
    /\ logs[Len(logs)] = Entry("Error rendering scene", 1, Unrecognized)
    /\ \E q \in Requests(r) : q.scene = 2

\* The records of a list that carry the id.
WithId(list, id) == SelectSeq(list, LAMBDA p : p.id = id)

\* C15: save is an upsert keyed by id.  Whatever was saved and deleted, a
\* listing holds at most one record per id; and a save of p leaves p as the
\* one record under p.id, adds an id only when p.id was not stored, and leaves
\* the records under the other ids as they were.
C15_SaveIsUpsert ==
  /\ [](\A id \in 1..MaxIds : Len(WithId(getProjects(db), id)) <= 1)
  /\ [](fnIn.fn = "saveProject" => WithId(getProjects(db), fnIn.project[1].id) = fnIn.project)
  /\ [][\A p \in StoreRecords :
          DbSave(p) =>
            /\ WithId(getProjects(db'), p.id) = <<p>>
            /\ Len(getProjects(db')) =
                 Len(getProjects(db)) + (IF WithId(getProjects(db), p.id) = <<>> THEN 1 ELSE 0)
            /\ \A id \in (1..MaxIds) \ {p.id} :
                 WithId(getProjects(db'), id) = WithId(getProjects(db), id)]_vars

\* C15 witness: a record listed earlier under id 1 has since been replaced by
\* a save under the same id, and the store lists one record under id 1.
C15_Witness ==
  /\ fnIn.fn = "saveProject" /\ fnIn.project[1].id = 1
  /\ WithId(projects, 1) # <<>>
  /\ Len(WithId(getProjects(db), 1)) = 1
  /\ WithId(getProjects(db), 1) # WithId(projects, 1)

\* C16: a listing holds exactly the stored records, each once, ordered by
\* creation time descending.
C16_ListSortedNewestFirst ==
  fnIn.fn = "getProjects" =>
    /\ Len(projects) = Cardinality(DOMAIN db)
    /\ {projects[i] : i \in 1..Len(projects)} = {db[k] : k \in DOMAIN db}
    /\ \A i \in 1..(Len(projects) - 1) :
         projects[i].createdAt >= projects[i + 1].createdAt

\* C16 witness: a listing of the store's records in which a newer record of a
\* larger id precedes an older one of a smaller id, against the key order.
C16_Witness ==
  /\ fnIn.fn = "getProjects" /\ Len(projects) >= 2
  /\ projects[1].id > projects[2].id
  /\ projects[1].createdAt > projects[2].createdAt

\* The log lines of the image stage of run r so far: the last lines of the
\* log, as many as scenes were processed, before the closing line if the loop
\* is over.
StageLines(r) ==
  LET closing == IF Finished(r) THEN 1 ELSE 0
      m == Len(runs[r].outcome)
  IN  SubSeq(logs, Len(logs) - closing - m + 1, Len(logs) - closing)

ErrorLines(r) == SelectSeq(StageLines(r), LAMBDA e : e.kind = "Error rendering scene")

\* C17: while the run's component is mounted, the image stage has appended
\* one log line per processed scene, in scene order, directly after the lines
\* of the script step: a success line for a scene whose request succeeded, an
\* error line naming the scene's number for one whose request failed; so the
\* error lines are as many as the failed scenes.
C17_LogOnePerScene ==
  \A r \in Started :
    (runs[r].attached /\ runs[r].pc \in {"image", "delay", "saving"}) =>
      LET m == Len(runs[r].outcome)
          lines == StageLines(r)
          before == Len(logs) - (IF Finished(r) THEN 1 ELSE 0) - m
      IN  /\ before >= 1
          /\ logs[before].kind \in {"Script generated", "Visual Context established"}
          /\ Finished(r) => logs[Len(logs)] = SavingEntry
          /\ \A k \in 1..m :
               /\ lines[k].scene = k
               /\ lines[k].kind = IF runs[r].outcome[k] THEN "Scene rendered successfully."
                                  ELSE "Error rendering scene"
          /\ Len(ErrorLines(r)) = Cardinality({k \in 1..m : ~runs[r].outcome[k]})

\* C17 witness: two scenes processed, only the second failed: the log holds
\* one error line, naming scene 2.
C17_Witness ==
  \E r \in Started :
    /\ runs[r].attached /\ runs[r].pc = "delay" /\ runs[r].outcome = <<TRUE, FALSE>>
    /\ Len(ErrorLines(r)) = 1 /\ ErrorLines(r)[1].scene = 2

\* C18: every record of the store has status completed, progress 100 and a
\* script; and no step changes a record that is in the store.
C18_OnlyFinishedPersisted ==
  /\ [](\A id \in DOMAIN db :
          /\ db[id].status = "completed"
          /\ db[id].progress = 100
          /\ ~db[id].script.isNull)
  /\ [][\A id \in DOMAIN db : id \in DOMAIN db' => db'[id] = db[id]]_vars

\* C18 witness: the store holds the project of a run of two scenes of which
\* one got no image.
C18_Witness ==
  \E id \in DOMAIN db :
    /\ db[id].status = "completed" /\ Len(db[id].script.scenes) = 2
    /\ db[id].script.scenes[1].imageUrl = <<>>
    /\ db[id].script.scenes[2].imageUrl # <<>>

\* The number of requests run r has issued for scene k (0: the script).
Calls(r, k) == Cardinality({j \in 1..Len(runs[r].issued) : runs[r].issued[j] = k})

\* C19: a run calls the script endpoint at most once, the image endpoint at
\* most once per scene and for no scene beyond the script's; when the loop is
\* over it has called it exactly once for each of the N scenes, whichever
\* calls failed; and a run stopped in the script step has called it never.
C19_NoRetry ==
  \A r \in Started :
    /\ Calls(r, 0) <= 1
    /\ runs[r].pc \in {"image", "delay", "saving"} =>
         /\ Calls(r, 0) = 1
         /\ \A k \in 1..SceneCount(r) : Calls(r, k) <= 1
         /\ Len(runs[r].issued) <= 1 + SceneCount(r)
         /\ Len(runs[r].issued) = 1 + Len(runs[r].outcome) + Cardinality(Requests(r))
    /\ Finished(r) =>
         /\ \A k \in 1..SceneCount(r) : Calls(r, k) = 1
         /\ Len(runs[r].issued) = 1 + SceneCount(r)
    /\ runs[r].pc = "failed" => Len(runs[r].issued) <= 1

\* C19 witness: a run of two scenes is over, both image requests failed, and
\* three requests were issued in all.
C19_Witness ==
  \E r \in Started :
    /\ runs[r].pc = "delay" /\ runs[r].outcome = <<FALSE, FALSE>>
    /\ runs[r].issued = <<0, 1, 2>>

\* The place of a status on the line draft, generating_script,
\* generating_images, then completed or error.
Rank(status) ==
  CASE status = "draft" -> 0
    [] status = "generating_script" -> 1
    [] status = "generating_images" -> 2
    [] status \in {"completed", "error"} -> 3
    [] OTHER -> 0 - 1

\* The invocation of run r holds its project.
Live(run) == run.pc \notin {"saved", "saveFailed"}

\* C20: a project starts as generating_script and its status only moves
\* forward along generating_script, generating_images, completed (error is
\* never entered); completed is never left, in the run or in the store; and a
\* project that is generating_images or completed has its script.
C20_StatusMovesForward ==
  /\ [](\A r \in Started : Live(runs[r]) =>
          /\ Rank(runs[r].newProject.status) >= 1
          /\ Rank(runs[r].newProject.status) >= 2 => ~runs[r].newProject.script.isNull)
  /\ [][\A r \in DOMAIN runs' :
          IF r \in DOMAIN runs
          THEN Live(runs'[r]) =>
                 /\ Rank(runs'[r].newProject.status) >= Rank(runs[r].newProject.status)
                 /\ Rank(runs[r].newProject.status) = 3 =>
                      runs'[r].newProject.status = runs[r].newProject.status
          ELSE runs'[r].newProject.status = "generating_script"]_vars
  /\ [][\A id \in DOMAIN db : id \in DOMAIN db' => db'[id].status = db[id].status]_vars

\* C20 witness: a run with a script of one scene has gone through
\* generating_images and is completed.
C20_Witness ==
  \E r \in Started :
    /\ runs[r].pc = "delay" /\ SceneCount(r) = 1 /\ runs[r].outcome = <<TRUE>>
    /\ runs[r].newProject.status = "completed"

\* C22: called with an empty credential, the script requestor and the image
\* requestor each throw the missing-credential error and send no request.
C22_RequestorsRejectEmptyKey ==
  (fnOut.done /\ fnIn.fn \in {"generateMovieScript", "generateSceneImage"}) =>
    /\ apiKey = "" =>
         (fnOut.threw /\ fnOut.error = "API Key is missing." /\ ~fnOut.sent)
    /\ apiKey # "" => fnOut.sent

\* C22 witness: the image requestor was called with an empty credential and a
\* response at hand that holds an image; it threw without sending.
C22_Witness ==
  /\ fnOut.done /\ fnIn.fn = "generateSceneImage" /\ apiKey = ""
  /\ fnIn.images # <<>> /\ fnIn.images[1].nested # <<>>
  /\ fnOut.threw /\ ~fnOut.sent /\ fnOut.ref = <<>>

\* C28: when the first entry of the images array has no nested URL, no direct
\* URL and no base64 payload, later entries are not looked at and the call
\* does not fail there: the content decides, by its markdown link, else as a
\* bare URL or data URI, and the call fails as unrecognized only when the
\* content yields nothing either.
C28_OnlyFirstImageEntry ==
  (fnOut.done /\ fnOut.sent /\ fnIn.fn = "generateSceneImage"
     /\ fnIn.images # <<>> /\ fnIn.images[1] = NoImage) =>
    LET content == fnIn.content
        bare == content # <<>> /\ content[1] # " " /\ content[Len(content)] # " "
    IN  /\ \A j \in 2..Len(fnIn.images) : fnIn.images[j].url # <<>> =>
             fnOut.ref # fnIn.images[j].url
        /\ HasLink(content) => (~fnOut.threw /\ fnOut.ref = LinkTarget(content))
        /\ (~HasLink(content) /\ bare /\ content[1] \in {"http", "data:"}) =>
             (~fnOut.threw /\ fnOut.ref = content)
        /\ NoStrategy([status |-> "ok", images |-> fnIn.images, content |-> content]) =>
             (fnOut.threw /\ fnOut.error = Unrecognized /\ fnOut.ref = <<>>)

\* C28 witness: the first entry is empty, the second has a URL, the content is
\* a bare URL: the content's URL is returned.
C28_Witness ==
  /\ fnOut.done /\ fnOut.sent /\ fnIn.fn = "generateSceneImage"
  /\ Len(fnIn.images) = 2 /\ fnIn.images[1] = NoImage /\ fnIn.images[2].url # <<>>
  /\ fnIn.content = <<"http", "x">>
  /\ fnOut.ref = <<"http", "x">>

\* C25 as claimed: the style passed to the script requestor is never empty,
\* and the scene count it derives from the duration is a number >= 1.
C25_CustomValuesPresent ==
  \A q \in inflight : q.kind = "script" => (q.style # "" /\ q.totalScenes >= 1)

\* C26 as claimed: when a run is completed, the progress shown is 100, as is
\* the progress of the project.
C26_CompletedShowsFullProgress ==
  \A r \in Started :
    (runs[r].attached /\ Finished(r)) =>
      (progress = 100 /\ runs[r].newProject.progress = 100)

\* C27: the progress shown lies in 0..100, is 0 before a run, 2 at its start,
\* 20 after a script without scenes, or 20 + floor((k / N) * 80) at scene k of
\* N; and it never decreases while the component stays mounted.
C27_ProgressMonotone ==
  /\ [](progress \in {0, 2, 20}
          \cup {20 + ((80 * k) \div n) : k \in 1..MaxScenes, n \in 1..MaxScenes})
  /\ [](progress >= 0 /\ progress <= 100)
  /\ [][(NewProjectMounted /\ NewProjectMounted') => progress' >= progress]_vars

\* C27 witness: the last of two scenes is being rendered, the progress having
\* gone 2, 60, 100.
C27_Witness ==
  \E r \in Started :
    /\ runs[r].attached /\ runs[r].pc = "image" /\ runs[r].i = 2 /\ SceneCount(r) = 2
    /\ progress = 100

\* The forms that lack what their mode requires: a premise, or, for a video
\* continuation, a project name and a video file whose frames are extracted.
IncompleteForms ==
  { f \in Forms : IF f.mode = "video_continuation"
                  THEN f.titleBlank \/ ~f.fileSelected \/ f.isProcessingVideo
                  ELSE f.contentBlank }

\* C30: pressing generate on a form whose premise is blank (storyboard or
\* freeform mode), or whose project name is blank, whose video file is missing
\* or whose frames are still being extracted (video-continuation mode), starts
\* no run: the log, the progress, the processing step, the runs' projects and
\* the requests in flight are all unchanged.
C30_ValidationGatesRun ==
  [][ \/ UNCHANGED <<uiVars, runs, inflight, db, projects>>
      \/ ~NewProjectMounted \/ step # "input" \/ lastAlert # ""
      \/ ~ \E f \in IncompleteForms : handleGenerate(f) ]_vars

\* C30 witness: generate was pressed with a blank premise, and with a video
\* form without a project name; the alert is up and nothing has started.
C30_Witness ==
  /\ lastAlert \in {"Please provide video content/instruction.",
                    "Please enter a project name."}
  /\ runs = <<>> /\ logs = <<>> /\ inflight = {} /\ step = "input"

\* ------------------------------------------------------------- termination
\* Every fetch eventually settles and its continuation runs: the event loop
\* runs the continuation of a settled promise as soon as no alert blocks the
\* page, however often alerts come up; and an alert is eventually closed.
Fairness ==
  /\ WF_vars(DismissAlert)
  /\ \A r \in 1..MaxRuns :
       /\ SF_vars(\E resp \in ScriptResponses : ScriptResolved(r, resp))
       /\ SF_vars(\E resp \in ImageResponses : ImageResolved(r, resp))

SpecLive == Spec /\ Fairness

\* C21: every started run eventually leaves the script and image steps, to
\* the completed project or to the error outcome; while it is in one of these
\* steps a request of its own is in flight, and it leaves the step only when
\* that request settles, whatever the user does meanwhile.
C21_RunTerminates ==
  /\ \A r \in 1..MaxRuns :
       (r \in DOMAIN runs) ~>
          (r \in DOMAIN runs /\ runs[r].pc \in {"failed", "delay", "saving", "saved", "saveFailed"})
  /\ [](\A r \in DOMAIN runs :
          runs[r].pc \in {"script", "image"} => \E q \in inflight : q.run = r)
  /\ [][\A r \in DOMAIN runs :
          (runs[r].pc \in {"script", "image"} /\ runs'[r] # runs[r]) =>
             \/ \E q \in inflight : q.run = r /\ q \notin inflight'
             \/ runs'[r] = [runs[r] EXCEPT !.attached = FALSE]]_vars

\* C21 witness: the user left the form during the run, and the run went on
\* through both scenes to the completed project.
C21_Witness ==
  \E r \in Started :
    /\ ~runs[r].attached /\ runs[r].pc = "delay" /\ SceneCount(r) = 2
    /\ runs[r].newProject.status = "completed"

\* --------------------------------------------------------- project management
\* The stores a browser can hold when the App mounts: the completed projects
\* that earlier sessions saved and did not delete, the later the newer.
Stores ==
  { [k \in ids |-> completed(NewProjectRecord(k, k))] : ids \in SUBSET (1..MaxIds) }

\* The App as it mounts on such a store: the effect on currentView has called
\* loadProjects.  Browsing and deleting read no credential.
InitStored ==
  /\ currentView = "new"
  /\ apiKey = ""
  /\ projects = <<>>
  /\ selectedProject = 0
  /\ db \in Stores
  /\ pendingLoads = 1
  /\ pendingDeletes = {}
  /\ lastAlert = ""
  /\ step = "input"
  /\ progress = 0
  /\ processingStatus = "Initializing..."
  /\ logs = <<>>
  /\ runs = <<>>
  /\ inflight = {}
  /\ fnIn = FnIdle /\ fnOut = FnNone

\* The handlers of the App shell that browse and delete stored projects.
NextApp ==
  \/ \E view \in {"new", "projects", "settings", "profile"} : Navigate(view)
  \/ \E n \in 1..MaxIds : onSelectProject(n)
  \/ onBack
  \/ \E ok \in BOOLEAN : LoadProjectsResolved(ok)
  \/ \E n \in 1..MaxIds, confirmed \in BOOLEAN : handleDeleteProject(n, confirmed)
  \/ \E id \in 1..MaxIds, ok \in BOOLEAN : DeleteResolved(id, ok)

SpecApp == InitStored /\ [][NextApp]_vars

\* C29: when a confirmed delete of a project settles, the store has lost
\* exactly the record of that id, the project list holds the records it held
\* at the confirmation except that one, and if the project was the selected
\* one the selection is cleared and the view is the project list, otherwise
\* selection and view stay; a declined confirmation changes nothing.
C29_DeleteRemovesExactlyOne ==
  /\ [][(fnIn'.fn = "deleteProject" /\ pendingDeletes' # pendingDeletes) =>
          LET d == fnIn'.project[1]
          IN  /\ DOMAIN db' = DOMAIN db \ {d.id}
              /\ \A k \in DOMAIN db' : db'[k] = db[k]
              /\ \A i \in 1..Len(projects') : projects'[i].id # d.id
              /\ \A i \in 1..Len(d.closureProjects) :
                   d.closureProjects[i].id # d.id =>
                     \E j \in 1..Len(projects') : projects'[j] = d.closureProjects[i]
              /\ Len(projects') <= Len(d.closureProjects)
              /\ IF d.closureSelected = d.id
                 THEN selectedProject' = 0 /\ currentView' = "projects"
                 ELSE UNCHANGED <<selectedProject, currentView>>]_vars
  /\ [][(fnIn'.fn = "declined" /\ fnIn' # fnIn) =>
          UNCHANGED <<currentView, projects, selectedProject, db, pendingLoads,
                      pendingDeletes>>]_vars

\* C29 witness: of two stored projects the selected one has been deleted; the
\* other is still in the store and in the list, nothing is selected and the
\* project list is shown.
C29_Witness ==
  /\ fnIn.fn = "deleteProject"
  /\ fnIn.project[1].closureSelected = fnIn.project[1].id
  /\ Len(fnIn.project[1].closureProjects) = 2
  /\ Cardinality(DOMAIN db) = 1 /\ Len(projects) = 1
  /\ selectedProject = 0 /\ currentView = "projects"

\* C23 as claimed: a run that has just started in the mounted component has
\* a log of its own three opening lines and nothing else.
C23_RunStartsWithEmptyLog ==
  \A r \in Started :
    (runs[r].attached /\ runs[r].pc = "script") => logs = StartEntries

\* C24 as claimed: at most one run is between its start and its outcome, and
\* the requests in flight all belong to one run.
C24_AtMostOneActiveRun ==
  /\ Cardinality({r \in Started : runs[r].pc \in {"script", "image"}}) <= 1
  /\ \A q1, q2 \in inflight : q1.run = q2.run

====
